---- MODULE Spec2Model ----
\* Object database of git4go: the loose-object backend (odb_loose.go) and the
\* backend-chain dispatcher with its alternates loader (odb.go).
\*
\* Bytes are integers 0..255, file contents and payloads are sequences of
\* bytes, hex characters of an Oid are integers 0..15 (16 and above stand for
\* characters that are not hex digits), path strings are sequences of path
\* components.
EXTENDS Integers, Sequences, FiniteSets, TLC

VARIABLES
    store,       \* the file system's object directories: store[d][bucket][name] = file content
    altFiles,    \* altFiles[d] = the lines of d/info/alternates, or NoFile
    backends,    \* Odb.backends
    stack,       \* the active AddDefaultBackends / loadAlternates invocations, innermost last
    calls,       \* the top-level AddDefaultBackends calls made on this Odb so far
    regCount,    \* how many backends were registered so far (registration order)
    handles,     \* handles the running AddDefaultBackends call opened and did not close
    res          \* what the last completed operation returned, NoOp while a call runs

vars == <<store, altFiles, backends, stack, calls, regCount, handles, res>>

-----------------------------------------------------------------------------
\* Program constants

GIT_LOOSE_PRIORITY == 1
GIT_PACKED_PRIORITY == 2
GIT_ALTERNATES_MAX_DEPTH == 5
\* io.CopyN(&buffer, reader, 64) in ReadHeader
HeaderPrefixLen == 64
\* length of the hex form of an Oid, and of its directory component
GIT_OID_HEXSZ == 40
OidDirLen == 2

\* ObjectType
ObjectBad == -1
ObjectCommit == 1
ObjectTree == 2
ObjectBlob == 3
ObjectTag == 4

ValidTypes == {ObjectCommit, ObjectTree, ObjectBlob, ObjectTag}

-----------------------------------------------------------------------------
\* Bounds of the model

\* longest payload handed to Write or stored by the environment
MaxPayload == 2
\* top-level AddDefaultBackends calls on one Odb
MaxCalls == 2
\* object directories on disk; a chain of alternates has NumDirs - 1 links
NumDirs == 7
-----------------------------------------------------------------------------
\* Generic helpers

Min(a, b) == IF a < b THEN a ELSE b

Pow2(n) == 2 ^ n

\* data[from..] in Go's 0-based slicing, as a 1-based sequence
Drop(s, n) == IF n >= Len(s) THEN << >> ELSE SubSeq(s, n + 1, Len(s))

Take(s, n) == SubSeq(s, 1, Min(n, Len(s)))

IsPrefixOf(p, s) == Len(p) <= Len(s) /\ SubSeq(s, 1, Len(p)) = p

\* the least 0-based offset >= from at which data holds byte b, or -1
IndexFrom(data, from, b) ==
    LET hits == {i \in from .. (Len(data) - 1) : data[i + 1] = b}
    IN  IF hits = {} THEN -1 ELSE CHOOSE i \in hits : \A j \in hits : i <= j

Repeat(x, n) == [i \in 1 .. n |-> x]

-----------------------------------------------------------------------------
\* ASCII

SP == 32
NUL == 0
Digit0 == 48

TypeName(t) ==
    CASE t = ObjectCommit -> <<99, 111, 109, 109, 105, 116>>
      [] t = ObjectTree -> <<116, 114, 101, 101>>
      [] t = ObjectBlob -> <<98, 108, 111, 98>>
      [] t = ObjectTag -> <<116, 97, 103>>
      [] OTHER -> << >>

\* ObjectType.String()
TypeString(t) == TypeName(t)

\* TypeString2Type: the type named by a token, ObjectBad for any other token
TypeString2Type(tok) ==
    IF \E t \in ValidTypes : TypeName(t) = tok
    THEN CHOOSE t \in ValidTypes : TypeName(t) = tok
    ELSE ObjectBad

\* fmt's %d of a non-negative integer
RECURSIVE Itoa(_)
Itoa(n) == IF n < 10 THEN <<Digit0 + n>> ELSE Itoa(n \div 10) \o <<Digit0 + (n % 10)>>

\* strconv.ParseUint(s, 10, 64): [ok, val]
RECURSIVE DigitsValue(_)
DigitsValue(s) ==
    IF s = << >> THEN 0
    ELSE 10 * DigitsValue(SubSeq(s, 1, Len(s) - 1)) + (s[Len(s)] - Digit0)

ParseUint(s) ==
    IF s = << >> \/ \E i \in 1 .. Len(s) : s[i] < Digit0 \/ s[i] > Digit0 + 9
    THEN [ok |-> FALSE, val |-> 0]
    ELSE [ok |-> TRUE, val |-> DigitsValue(s)]

-----------------------------------------------------------------------------
\* compress/zlib, as the backend uses it.  A stream is the two header bytes
\* 0x78 0x9C that zlib.NewWriter emits at the default level, then the deflate
\* body, then a checksum.  The deflate body is modelled as one block that
\* carries its length and the plain bytes.

ZlibCMF == 120
ZlibFLG == 156

Checksum(plain) == (1 + Len(plain)) % 251

\* what a zlib.Writer writes for plain between NewWriter and Close
ZlibCompress(plain) == <<ZlibCMF, ZlibFLG, Len(plain)>> \o plain \o <<Checksum(plain)>>

\* zlib.NewReader(bytes.NewReader(src)): it reads and checks the 2-byte header
ZlibHeaderOk(src) ==
    /\ Len(src) >= 2
    /\ src[1] % 16 = 8
    /\ src[1] \div 16 <= 7
    /\ (src[1] * 256 + src[2]) % 31 = 0
    /\ (src[2] \div 32) % 2 = 0

\* what io.Copy(&buffer, reader) leaves in the buffer; the error of a stream
\* that ends early is dropped by the callers, the bytes read so far are kept
Inflate(src) ==
    IF Len(src) < 3 THEN << >>
    ELSE SubSeq(src, 4, Min(3 + src[3], Len(src)))

-----------------------------------------------------------------------------
\* Results of the operations

\* leak: the handles the call opened and did not close
Result(kind, err, type, size, data, oid) ==
    [kind |-> kind, err |-> err, type |-> type, size |-> size, data |-> data, oid |-> oid,
     leak |-> 0]

Panic(msg) == Result("panic", msg, ObjectBad, 0, << >>, << >>)
Fail(msg) == Result("err", msg, ObjectBad, 0, << >>, << >>)

-----------------------------------------------------------------------------
\* Object header codec (odb_loose.go)

\* isZlibCompressedData: "panic" when data has fewer than 2 bytes (data[0],
\* data[1] are read unchecked), otherwise "yes" or "no"
isZlibCompressedData(data) ==
    IF Len(data) < 2 THEN "panic"
    ELSE LET w == data[1] * 256 + data[2]
         IN  IF (data[1] < 128 /\ data[1] % 16 = 8) /\ w % 31 = 0 THEN "yes" ELSE "no"

\* parseObjectHeader: [ok, type, size, offset]
parseObjectHeader(data) ==
    LET sp == IndexFrom(data, 0, SP)
        resultType == IF sp >= 0 THEN TypeString2Type(Take(data, sp)) ELSE ObjectBad
        typeEnd == IF sp >= 0 THEN sp + 1 ELSE 0
        offset1 == IF sp >= 0 THEN sp + 1 ELSE Len(data)
        nul == IndexFrom(data, offset1, NUL)
        parsed == IF nul >= 0 THEN ParseUint(SubSeq(data, typeEnd + 1, nul))
                  ELSE [ok |-> TRUE, val |-> 0]
        offset2 == IF nul >= 0 THEN nul + 1 ELSE Len(data)
    IN  IF ~parsed.ok
        THEN [ok |-> FALSE, type |-> ObjectBad, size |-> 0, offset |-> 0]
        ELSE [ok |-> TRUE, type |-> resultType, size |-> parsed.val, offset |-> offset2]

\* sizes are kept modulo 2^SizeBits
SizeBits == 30

\* (b & 0x7f) << shift, modulo 2^SizeBits
ShiftIn(b, shift) ==
    IF shift >= SizeBits THEN 0
    ELSE ((b % 128) % Pow2(SizeBits - shift)) * Pow2(shift)

\* the loop of parseBinaryObjectHeader, lines 83-90: c is the first byte and
\* is never reassigned, offset is incremented before data[offset] is read
RECURSIVE binaryHeaderLoop(_, _, _, _, _, _)
binaryHeaderLoop(data, c, resultType, size, shift, offset) ==
    IF c < 128
    THEN [kind |-> "ok", type |-> resultType, size |-> size, offset |-> offset]
    ELSE IF Len(data) <= offset
    THEN [kind |-> "err", type |-> ObjectBad, size |-> 0, offset |-> 0]
    ELSE IF offset + 1 >= Len(data)
    THEN [kind |-> "panic", type |-> ObjectBad, size |-> 0, offset |-> 0]
    ELSE binaryHeaderLoop(data, c, resultType,
                          (size + ShiftIn(data[offset + 2], shift)) % Pow2(SizeBits),
                          shift + 7, offset + 1)

\* parseBinaryObjectHeader: [kind, type, size, offset]
parseBinaryObjectHeader(data) ==
    IF Len(data) = 0
    THEN [kind |-> "err", type |-> ObjectBad, size |-> 0, offset |-> 0]
    ELSE LET c == data[1]
         IN  binaryHeaderLoop(data, c, (c \div 16) % 8, c % 16, 4, 1)

\* OdbBackendLoose.Read after ioutil.ReadFile returned content
ReadContent(content) ==
    LET z == isZlibCompressedData(content) IN
    IF z = "panic" THEN Panic("index out of range")
    ELSE IF z = "yes"
    THEN IF ~ZlibHeaderOk(content) THEN Fail("zlib: invalid header")
         ELSE LET data == Inflate(content)
                  h == parseObjectHeader(data)
              IN  IF ~h.ok THEN Fail("strconv.ParseUint")
                  ELSE Result("ok", "", h.type, 0, Drop(data, h.offset), << >>)
    ELSE LET h == parseBinaryObjectHeader(content) IN
         IF h.kind = "panic" THEN Panic("index out of range")
         ELSE IF h.kind = "err" THEN Fail("parseBinaryObjectHeader")
         ELSE LET rest == Drop(content, h.offset) IN
              \* defer reader.Close() runs before err is looked at: with a nil
              \* reader the deferred call is a nil dereference
              IF ~ZlibHeaderOk(rest) THEN Panic("nil pointer dereference")
              ELSE Result("ok", "", h.type, 0, Inflate(rest), << >>)

\* ReadHeader decompressing a prefix too short for the header
ReadHeaderContent_ShortPrefix(content) ==
    LET z == isZlibCompressedData(content) IN
    IF z = "panic" THEN Panic("index out of range")
    ELSE IF z = "yes"
    THEN IF ~ZlibHeaderOk(content) THEN Fail("zlib: invalid header")
         ELSE LET data == Take(Inflate(content), 6)
                  h == parseObjectHeader(data)
              IN  IF ~h.ok THEN Fail("strconv.ParseUint")
                  ELSE Result("ok", "", h.type, h.size, << >>, << >>)
    ELSE LET h == parseBinaryObjectHeader(content) IN
         IF h.kind = "panic" THEN Panic("index out of range")
         ELSE IF h.kind = "err" THEN Fail("parseBinaryObjectHeader")
         ELSE Result("ok", "", h.type, h.size, << >>, << >>)

\* OdbBackendLoose.ReadHeader after ioutil.ReadFile returned content
ReadHeaderContent(content) ==
    LET z == isZlibCompressedData(content) IN
    IF z = "panic" THEN Panic("index out of range")
    ELSE IF z = "yes"
    THEN IF ~ZlibHeaderOk(content) THEN Fail("zlib: invalid header")
         ELSE LET data == Take(Inflate(content), HeaderPrefixLen)
                  h == parseObjectHeader(data)
              IN  IF ~h.ok THEN Fail("strconv.ParseUint")
                  ELSE Result("ok", "", h.type, h.size, << >>, << >>)
    ELSE LET h == parseBinaryObjectHeader(content) IN
         IF h.kind = "panic" THEN Panic("index out of range")
         ELSE IF h.kind = "err" THEN Fail("parseBinaryObjectHeader")
         ELSE Result("ok", "", h.type, h.size, << >>, << >>)

-----------------------------------------------------------------------------
\* Oid

HexChars == 0 .. 15

\* NewOid(hex): the Oid of a text of exactly GIT_OID_HEXSZ hex characters,
\* InvalidFormat for any other text
NewOid(text) ==
    IF Len(text) = GIT_OID_HEXSZ /\ \A i \in 1 .. Len(text) : text[i] \in HexChars
    THEN Result("ok", "", ObjectBad, 0, << >>, text)
    ELSE Fail("InvalidFormat")

\* Oid.PathFormat(): directory name and file name
PathFormat(oid) == <<Take(oid, OidDirLen), Drop(oid, OidDirLen)>>

PadOid(head) == head \o Repeat(0, GIT_OID_HEXSZ - Len(head))

RECURSIVE Nibbles(_)
Nibbles(bytes) ==
    IF bytes = << >> THEN << >>
    ELSE <<bytes[1] \div 16, bytes[1] % 16>> \o Nibbles(Drop(bytes, 1))

\* hash(data, objType): the digest of "<type-name> <length>\0" followed by the
\* payload.  The digest is modelled by a collision-free encoding of type,
\* length and payload; of a payload longer than HashedBytes only the length and
\* the first HashedBytes bytes go into it.  The digests of the model fall into
\* two buckets.
HashedBytes == 17

hash(data, objType) ==
    PadOid(<<11, objType % 2, objType, Len(data) % 16>> \o Nibbles(Take(data, HashedBytes))
           \o <<(Len(data) \div 16) % 16>>)

-----------------------------------------------------------------------------
\* One object directory on disk: a function from the names of its
\* subdirectories to a function from the names of their entries to contents

EmptyDir == << >>

HasBucket(dir, bucket) == bucket \in DOMAIN dir

HasFile(dir, bucket, name) == bucket \in DOMAIN dir /\ name \in DOMAIN dir[bucket]

\* An entry of the object directory that is a regular file and no
\* subdirectory is the function from the one name FileMark to its content.
FileMark == <<-1>>

IsFileEntry(dir, name) == name \in DOMAIN dir /\ DOMAIN dir[name] = {FileMark}

\* dir with bucket created if absent (os.MkdirAll); a regular file of that
\* name stays what it is and the error is dropped
MkdirAll(dir, bucket) ==
    IF bucket \in DOMAIN dir THEN dir
    ELSE [b \in DOMAIN dir \cup {bucket} |-> IF b = bucket THEN << >> ELSE dir[b]]

\* dir with file bucket/name holding content, created if absent
PutFile(dir, bucket, name, content) ==
    LET d1 == MkdirAll(dir, bucket)
    IN  [d1 EXCEPT ![bucket] =
            [n \in DOMAIN d1[bucket] \cup {name} |->
                IF n = name THEN content ELSE d1[bucket][n]]]

\* a write of new at the end of the file, as with O_APPEND
Overwrite_Append(old, new) == old \o new

\* a write of new at offset 0 of a file opened without O_TRUNC
Overwrite(old, new) == new \o Drop(old, Len(new))

-----------------------------------------------------------------------------
\* Loose backend (odb_loose.go), on the object directory dir

OdbBackendLoose_Read(dir, oid) ==
    LET pf == PathFormat(oid) IN
    IF ~HasFile(dir, pf[1], pf[2]) THEN Fail("ENOENT")
    ELSE ReadContent(dir[pf[1]][pf[2]])

OdbBackendLoose_ReadHeader(dir, oid) ==
    LET pf == PathFormat(oid) IN
    IF ~HasFile(dir, pf[1], pf[2]) THEN Fail("ENOENT")
    ELSE ReadHeaderContent(dir[pf[1]][pf[2]])

\* Exists: !os.IsNotExist(err), so that every error of os.Stat other than
\* ENOENT (ENOTDIR, when the bucket is a regular file) counts as existence
OdbBackendLoose_Exists(dir, oid) ==
    LET pf == PathFormat(oid) IN HasFile(dir, pf[1], pf[2]) \/ IsFileEntry(dir, pf[1])

\* the entries of the bucket that strings.HasPrefix accepts
PrefixMatches(dir, oid, length) ==
    LET pf == PathFormat(oid)
        prefix == Take(pf[2], length - OidDirLen)
    IN  IF ~HasBucket(dir, pf[1]) THEN {}
        ELSE {n \in DOMAIN dir[pf[1]] : IsPrefixOf(prefix, n)}

OdbBackendLoose_ExistsPrefix(dir, oid, length) ==
    LET pf == PathFormat(oid)
        matches == PrefixMatches(dir, oid, length)
        found == Cardinality(matches)
        \* the directory opened at line 202 is closed on no path
        out == IF found = 0 THEN Fail("no matching loose object for prefix")
               ELSE IF found = 1 THEN NewOid(pf[1] \o (CHOOSE n \in matches : TRUE))
               ELSE Fail("multiple matches in loose objects")
    IN  IF ~HasBucket(dir, pf[1]) THEN Fail("ENOENT")
        ELSE IF IsFileEntry(dir, pf[1]) THEN [Fail("ENOTDIR") EXCEPT !.leak = 1]
        ELSE [out EXCEPT !.leak = 1]

OdbBackendLoose_ReadPrefix(dir, oid, length) ==
    LET found == OdbBackendLoose_ExistsPrefix(dir, oid, length) IN
    IF found.kind # "ok" THEN found
    ELSE LET obj == OdbBackendLoose_Read(dir, found.oid) IN
         IF obj.kind # "ok" THEN [obj EXCEPT !.leak = found.leak]
         ELSE [obj EXCEPT !.oid = found.oid, !.leak = found.leak]

\* the object directory after Write: the bucket is created, the file is
\* opened with os.O_WRONLY alone, the error of OpenFile is dropped and every
\* write to the nil file fails unnoticed
WriteDir(dir, data, objType) ==
    LET oid == hash(data, objType)
        pf == PathFormat(oid)
        d1 == MkdirAll(dir, pf[1])
        new == ZlibCompress(TypeString(objType) \o <<SP>> \o Itoa(Len(data)) \o <<NUL>> \o data)
    IN  IF HasFile(d1, pf[1], pf[2])
        THEN [d1 EXCEPT ![pf[1]][pf[2]] = Overwrite(@, new)]
        ELSE d1

\* what Write returns: (oid, nil) on every path after hash
OdbBackendLoose_Write(dir, data, objType) ==
    Result("ok", "", ObjectBad, 0, << >>, hash(data, objType))

\* the listings Readdirnames can return for a set of names: any order
Perms(S) ==
    {s \in [1 .. Cardinality(S) -> S] : \A x \in S : \E i \in DOMAIN s : s[i] = x}

\* the inner loop of ForEach, lines 252-264, from childItems[i] on; failOn
\* lists the Oids the callback returns an error for
RECURSIVE forEachItems(_, _, _, _, _)
forEachItems(dirName, childItems, failOn, i, visited) ==
    IF i > Len(childItems) THEN [kind |-> "ok", err |-> "", visited |-> visited]
    ELSE LET childItem == childItems[i] IN
         IF Len(childItem) # GIT_OID_HEXSZ - OidDirLen
         THEN forEachItems(dirName, childItems, failOn, i + 1, visited)
         ELSE LET oid == NewOid(dirName \o childItem) IN
              IF oid.kind # "ok"
              THEN [kind |-> "err", err |-> oid.err, visited |-> visited]
              ELSE IF \E k \in 1 .. Len(failOn) : failOn[k] = oid.oid
              THEN [kind |-> "err", err |-> "callback", visited |-> Append(visited, oid.oid)]
              ELSE forEachItems(dirName, childItems, failOn, i + 1,
                                Append(visited, oid.oid))

\* the outer loop of ForEach, lines 240-265, from dirNames[i] on; order lists
\* the entry names in the order the subdirectories return them
RECURSIVE forEachDirs(_, _, _, _, _, _, _)
forEachDirs(dir, dirNames, order, failOn, i, visited, leak) ==
    IF i > Len(dirNames)
    THEN [Result("ok", "", ObjectBad, 0, visited, << >>) EXCEPT !.leak = leak]
    ELSE LET dirName == dirNames[i] IN
         IF Len(dirName) # OidDirLen
         THEN forEachDirs(dir, dirNames, order, failOn, i + 1, visited, leak)
         ELSE IF IsFileEntry(dir, dirName)
         THEN [Result("err", "ENOTDIR", ObjectBad, 0, visited, << >>) EXCEPT !.leak = leak + 1]
         ELSE LET childItems == SelectSeq(order, LAMBDA n : n \in DOMAIN dir[dirName])
                  r == forEachItems(dirName, childItems, failOn, 1, visited)
              IN  IF r.kind # "ok"
                  THEN [Result("err", r.err, ObjectBad, 0, r.visited, << >>)
                        EXCEPT !.leak = leak + 1]
                  ELSE forEachDirs(dir, dirNames, order, failOn, i + 1, r.visited, leak + 1)

\* ForEach(callback): data is the sequence of the Oids the callback was
\* invoked with; the directory opened at line 232 and the subdirectories
\* opened at line 245 are closed nowhere
OdbBackendLoose_ForEach(dir, dirNames, order, failOn) ==
    forEachDirs(dir, dirNames, order, failOn, 1, << >>, 1)

-----------------------------------------------------------------------------
\* Paths.  A path string is the sequence of its components.  The object
\* directories are siblings "d1", "d2", ... of one parent, "l1" is a symbolic
\* link to d1, every other name is missing.

Dirs == 1 .. NumDirs

DirName(k) ==
    CASE k = 1 -> "d1" [] k = 2 -> "d2" [] k = 3 -> "d3" [] k = 4 -> "d4"
      [] k = 5 -> "d5" [] k = 6 -> "d6" [] k = 7 -> "d7" [] k = 8 -> "d8"
      [] OTHER -> "d9"

\* filepath.Clean on components: "." is dropped, ".." removes the component
\* before it
RECURSIVE CleanFrom(_, _)
CleanFrom(done, rest) ==
    IF rest = << >> THEN done
    ELSE IF rest[1] = "." THEN CleanFrom(done, Drop(rest, 1))
    ELSE IF rest[1] = ".." /\ done # << >> /\ done[Len(done)] # ".."
    THEN CleanFrom(SubSeq(done, 1, Len(done) - 1), Drop(rest, 1))
    ELSE CleanFrom(Append(done, rest[1]), Drop(rest, 1))

Clean(path) == CleanFrom(<< >>, path)

\* filepath.Join
Join(a, b) == Clean(a \o b)

\* os.Stat(path): the physical directory the path names, 0 when it names none
Stat(path) ==
    LET c == Clean(path) IN
    IF Len(c) # 1 THEN 0
    ELSE IF c[1] = "l1" THEN 1
    ELSE IF \E k \in Dirs : DirName(k) = c[1] THEN CHOOSE k \in Dirs : DirName(k) = c[1]
    ELSE 0

\* the first character of a line of an alternates file
FirstChar(line) ==
    IF line = << >> THEN ""
    ELSE IF line[1] \in {".", ".."} THEN "."
    ELSE IF line[1] = "#" THEN "#"
    ELSE "/"

-----------------------------------------------------------------------------
\* Odb (odb.go)

\* OdbBackendBase.SameDirectory(dirInfo): os.SameFile on the directory the
\* backend was registered with
SameDirectory(backend, info) == backend.dir = info

\* OdbBackends.Less: by priority
Less(a, b) == a.priority < b.priority

\* sort.Sort on a list of fewer than 12 elements is an insertion sort
RECURSIVE InsertSorted(_, _)
InsertSorted(sorted, x) ==
    IF sorted = << >> THEN <<x>>
    ELSE IF Less(x, sorted[Len(sorted)])
    THEN Append(InsertSorted(SubSeq(sorted, 1, Len(sorted) - 1), x), sorted[Len(sorted)])
    ELSE Append(sorted, x)

RECURSIVE SortBackends(_)
SortBackends(list) ==
    IF list = << >> THEN << >>
    ELSE InsertSorted(SortBackends(SubSeq(list, 1, Len(list) - 1)), list[Len(list)])

\* addBackendInternal putting the new backend in front of the list
addBackendInternal_Prepend(list, backend, priority, asAlternates, dirInfo) ==
    SortBackends(<<[backend EXCEPT !.priority = priority, !.asAlternates = asAlternates,
                                   !.dir = dirInfo]>> \o list)

\* addBackendInternal: InitBackend, append, sort
addBackendInternal(list, backend, priority, asAlternates, dirInfo) ==
    SortBackends(Append(list,
        [backend EXCEPT !.priority = priority, !.asAlternates = asAlternates,
                        !.dir = dirInfo]))

\* NewOdbBackendLoose(objectsDir, ...); seq is the registration number
NewOdbBackendLoose(objectsDir, seq) ==
    [objectsDir |-> objectsDir, priority |-> 0, asAlternates |-> FALSE, dir |-> 0,
     seq |-> seq]

\* the object directory a backend reads
BackendDir(st, backend) == st[Stat(backend.objectsDir)]

\* Odb.Exists
Odb_Exists(bs, st, oid) ==
    \E i \in 1 .. Len(bs) : OdbBackendLoose_Exists(BackendDir(st, bs[i]), oid)

\* Odb.Read: the loop over o.backends from index i on
RECURSIVE ReadLoop(_, _, _, _)
ReadLoop(bs, st, oid, i) ==
    IF i > Len(bs) THEN Fail("Odb.Read: no match for id")
    ELSE LET r == OdbBackendLoose_Read(BackendDir(st, bs[i]), oid) IN
         IF r.kind = "err" THEN ReadLoop(bs, st, oid, i + 1) ELSE r

Odb_Read(bs, st, oid) == ReadLoop(bs, st, oid, 1)

RECURSIVE ReadHeaderLoop(_, _, _, _)
ReadHeaderLoop(bs, st, oid, i) ==
    IF i > Len(bs) THEN Fail("Odb.ReadHeader: no match for id")
    ELSE LET r == OdbBackendLoose_ReadHeader(BackendDir(st, bs[i]), oid) IN
         IF r.kind = "err" THEN ReadHeaderLoop(bs, st, oid, i + 1) ELSE r

Odb_ReadHeader(bs, st, oid) == ReadHeaderLoop(bs, st, oid, 1)

\* Odb.ReadPrefix; leak sums the handles the consulted backends left open
RECURSIVE ReadPrefixLoop(_, _, _, _, _, _)
ReadPrefixLoop(bs, st, oid, length, i, leak) ==
    IF i > Len(bs) THEN [Fail("Odb.ReadPrefix: no match for id") EXCEPT !.leak = leak]
    ELSE LET r == OdbBackendLoose_ReadPrefix(BackendDir(st, bs[i]), oid, length) IN
         IF r.kind = "err" THEN ReadPrefixLoop(bs, st, oid, length, i + 1, leak + r.leak)
         ELSE [r EXCEPT !.leak = leak + r.leak]

Odb_ReadPrefix(bs, st, oid, length) == ReadPrefixLoop(bs, st, oid, length, 1, 0)

\* Odb.ExistsPrefix: last is what the previous backend returned; with no
\* backend left the call returns (nil, err) with the last backend's err,
\* which is nil when there was no backend at all
RECURSIVE ExistsPrefixLoop(_, _, _, _, _, _, _)
ExistsPrefixLoop(bs, st, oid, length, i, last, leak) ==
    IF i > Len(bs) THEN [last EXCEPT !.leak = leak]
    ELSE LET r == OdbBackendLoose_ExistsPrefix(BackendDir(st, bs[i]), oid, length) IN
         IF r.kind = "ok" THEN [r EXCEPT !.leak = leak + r.leak]
         ELSE ExistsPrefixLoop(bs, st, oid, length, i + 1, r, leak + r.leak)

\* (nil, nil)
NilNil == Result("nil", "", ObjectBad, 0, << >>, << >>)

Odb_ExistsPrefix(bs, st, oid, length) == ExistsPrefixLoop(bs, st, oid, length, 1, NilNil, 0)

-----------------------------------------------------------------------------
\* Sample objects and file contents

\* the legacy variant: one compressed stream of header and payload
LegacyFile(type, payload) ==
    ZlibCompress(TypeString(type) \o <<SP>> \o Itoa(Len(payload)) \o <<NUL>> \o payload)

\* the compact variant: one header byte (sizes below 16), more with the
\* continuation bit set, then the compressed payload
RECURSIVE VarintTail(_)
VarintTail(n) ==
    IF n < 128 THEN <<n>> ELSE <<128 + (n % 128)>> \o VarintTail(n \div 128)

CompactHeader(type, size) ==
    IF size < 16 THEN <<type * 16 + size>>
    ELSE <<128 + type * 16 + (size % 16)>> \o VarintTail(size \div 16)

CompactFile(type, payload) == CompactHeader(type, Len(payload)) \o ZlibCompress(payload)

\* the object that only directory k holds
OidOf(k) == hash(<<k>>, ObjectBlob)

\* an Oid no directory holds
AbsentOid == hash(<<0>>, ObjectTag)

-----------------------------------------------------------------------------
\* Sample disks of the dispatcher's specification

NoAlternates == [exists |-> FALSE, readable |-> FALSE, lines |-> << >>]

AltFile(lines) == [exists |-> TRUE, readable |-> TRUE, lines |-> lines]

RelLine(k) == <<"..", DirName(k)>>

\* d1 names d2, d2 names d3, ... up to the last directory
AltChain == [k \in Dirs |-> IF k < NumDirs THEN AltFile(<<RelLine(k + 1)>>) ELSE NoAlternates]

\* d1 and d2 name each other, d3 names itself
AltCycle ==
    [k \in Dirs |->
        IF k = 1 THEN AltFile(<<<< >>, <<"#">>, RelLine(2)>>)
        ELSE IF k = 2 THEN AltFile(<<RelLine(1), RelLine(3)>>)
        ELSE IF k = 3 THEN AltFile(<<RelLine(3)>>)
        ELSE NoAlternates]

\* d1 has an absolute line, a line naming a missing directory and then a
\* line naming d3; the file of d2 cannot be opened; d3 names d1 through the
\* link l1, then d2
AltMixed ==
    [k \in Dirs |->
        IF k = 1 THEN AltFile(<<<<"/", "d2">>, <<"..", "nope">>, RelLine(3)>>)
        ELSE IF k = 2 THEN [exists |-> TRUE, readable |-> FALSE, lines |-> << >>]
        ELSE IF k = 3 THEN AltFile(<<<<"..", "l1">>, RelLine(2)>>)
        ELSE NoAlternates]

AltNone == [k \in Dirs |-> NoAlternates]

AltLayouts == {AltChain, AltCycle, AltMixed, AltNone}

ObjectIn(dir, oid, content) == PutFile(dir, PathFormat(oid)[1], PathFormat(oid)[2], content)

\* every directory k holds its own object OidOf(k); these Oids share their
\* first 5 characters
StoreEach == [k \in Dirs |-> ObjectIn(EmptyDir, OidOf(k), LegacyFile(ObjectBlob, <<k>>))]

\* d1 holds two objects of one bucket, d2 a third one of that bucket, d3 holds
\* OidOf(1) in the compact variant
StoreShared ==
    [k \in Dirs |->
        IF k = 1 THEN ObjectIn(ObjectIn(EmptyDir, OidOf(1), LegacyFile(ObjectBlob, <<1>>)),
                               OidOf(3), LegacyFile(ObjectBlob, <<3>>))
        ELSE IF k = 2 THEN ObjectIn(EmptyDir, OidOf(2), LegacyFile(ObjectBlob, <<2>>))
        ELSE IF k = 3 THEN ObjectIn(EmptyDir, OidOf(1), CompactFile(ObjectBlob, <<1>>))
        ELSE EmptyDir]

\* a stream whose header carries a size that is no number
DamagedFile(type, payload) == ZlibCompress(TypeString(type) \o <<SP, 120, NUL>> \o payload)

\* d1 holds OidOf(1) intact and an empty file under OidOf(2); d2 holds OidOf(2)
\* intact and a damaged file under OidOf(1)
StoreDamaged ==
    [k \in Dirs |->
        IF k = 1 THEN ObjectIn(ObjectIn(EmptyDir, OidOf(1), LegacyFile(ObjectBlob, <<1>>)),
                               OidOf(2), << >>)
        ELSE IF k = 2 THEN ObjectIn(ObjectIn(EmptyDir, OidOf(2), LegacyFile(ObjectBlob, <<2>>)),
                                    OidOf(1), DamagedFile(ObjectBlob, <<1>>))
        ELSE EmptyDir]

StoreLayouts == {StoreEach, StoreShared, StoreDamaged}

\* the path strings callers hand to AddDefaultBackends
TopPaths == {<<"d1">>, <<"d2">>, <<"l1">>, <<"nope">>}

StartDepths == {0, 1, GIT_ALTERNATES_MAX_DEPTH + 1}

\* the Oids and prefix lengths the callers ask for
AskOids == {OidOf(2), AbsentOid}

AskLengths == {3, GIT_OID_HEXSZ}

-----------------------------------------------------------------------------
\* The record of a completed operation: its name, its arguments, what it
\* returned and, for Write, the object directory before the call

Done(op, path, oid, length, type, data, out) ==
    [op |-> op, path |-> path, oid |-> oid, length |-> length, type |-> type,
     data |-> data, out |-> out, before |-> EmptyDir]

NoOp == Done("none", << >>, << >>, 0, ObjectBad, << >>, NilNil)

\* an Odb without backends, as OdbOpen and Repository.Odb create it
Init ==
    /\ store \in StoreLayouts
    /\ altFiles \in AltLayouts
    /\ backends = << >>
    /\ stack = << >>
    /\ calls = << >>
    /\ regCount = 0
    /\ handles = 0
    /\ res = NoOp

-----------------------------------------------------------------------------
\* AddDefaultBackends and loadAlternates.  A frame of the stack is one
\* invocation of AddDefaultBackends: pc "stat" before line 39, "scan" inside
\* the loop of loadAlternates at line 137, "ret" when it is about to return
\* err (TRUE: a non-nil error).

Frame(path, asAlternates, depth, pc, line, err) ==
    [path |-> path, asAlternates |-> asAlternates, depth |-> depth, pc |-> pc,
     line |-> line, err |-> err]

Top == stack[Len(stack)]

SetTop(frame) == [stack EXCEPT ![Len(stack)] = frame]

\* the loop of lines 43-47 left out
Registered_Never(info) == FALSE

Registered(info) == \E i \in 1 .. Len(backends) : SameDirectory(backends[i], info)

\* a caller invokes AddDefaultBackends(objectsDir, asAlternates, alternateDepth);
\* OdbOpen is the call with (false, 0) on the empty list
CallAddDefaultBackends(objectsDir, depth) ==
    /\ stack = << >>
    /\ Len(calls) < MaxCalls
    /\ stack' = <<Frame(objectsDir, depth > 0, depth, "stat", 0, FALSE)>>
    /\ calls' = Append(calls, [path |-> objectsDir, depth |-> depth])
    /\ handles' = 0
    /\ res' = NoOp
    /\ UNCHANGED <<store, altFiles, backends, regCount>>

\* loadAlternates, lines 124-135: TRUE when the loop over the lines is entered
EntersScan(info, depth) ==
    /\ ~(depth > GIT_ALTERNATES_MAX_DEPTH)
    /\ altFiles[info].exists
    /\ altFiles[info].readable

\* AddDefaultBackends, lines 39-52, up to the loop of loadAlternates
EnterAddDefaultBackends ==
    /\ stack # << >>
    /\ Top.pc = "stat"
    /\ LET info == Stat(Top.path) IN
       IF info = 0
       THEN /\ stack' = SetTop([Top EXCEPT !.pc = "ret", !.err = TRUE])
            /\ UNCHANGED <<backends, regCount, handles>>
       ELSE IF Registered(info)
       THEN /\ stack' = SetTop([Top EXCEPT !.pc = "ret", !.err = FALSE])
            /\ UNCHANGED <<backends, regCount, handles>>
       ELSE /\ backends' = addBackendInternal(backends,
                               NewOdbBackendLoose(Top.path, regCount + 1),
                               GIT_LOOSE_PRIORITY, Top.asAlternates, info)
            /\ regCount' = regCount + 1
            /\ IF EntersScan(info, Top.depth)
               THEN /\ stack' = SetTop([Top EXCEPT !.pc = "scan", !.line = 1])
                    \* os.Open at line 132; the file is closed nowhere
                    /\ handles' = handles + 1
               ELSE /\ stack' = SetTop([Top EXCEPT !.pc = "ret", !.err = FALSE])
                    /\ UNCHANGED handles
    /\ UNCHANGED <<store, altFiles, calls, res>>

\* line 142 without the test of alternateDepth
FollowsLine_AnyDepth(line, depth) == FirstChar(line) = "."

\* line 142: the line is followed
FollowsLine(line, depth) == FirstChar(line) = "." /\ depth > 0

\* the loop of loadAlternates reading the same line again after a line it followed
ScanLine_SameLine ==
    /\ stack # << >>
    /\ Top.pc = "scan"
    /\ LET lines == altFiles[Stat(Top.path)].lines IN
       IF Top.line > Len(lines)
       THEN stack' = SetTop([Top EXCEPT !.pc = "ret", !.err = FALSE])
       ELSE LET line == lines[Top.line] IN
            IF FirstChar(line) \in {"", "#"} \/ ~(FirstChar(line) = "." /\ Top.depth > 0)
            THEN stack' = SetTop([Top EXCEPT !.line = @ + 1])
            ELSE stack' = Append(stack, Frame(Join(Top.path, line), TRUE, Top.depth,
                                              "stat", 0, FALSE))
    /\ UNCHANGED <<store, altFiles, backends, calls, regCount, handles, res>>

\* one iteration of the loop of loadAlternates, lines 137-149
ScanLine ==
    /\ stack # << >>
    /\ Top.pc = "scan"
    /\ LET lines == altFiles[Stat(Top.path)].lines IN
       IF Top.line > Len(lines)
       THEN stack' = SetTop([Top EXCEPT !.pc = "ret", !.err = FALSE])
       ELSE LET line == lines[Top.line] IN
            IF FirstChar(line) \in {"", "#"} \/ ~FollowsLine(line, Top.depth)
            THEN stack' = SetTop([Top EXCEPT !.line = @ + 1])
            ELSE stack' = Append(SetTop([Top EXCEPT !.line = @ + 1]),
                                 Frame(Join(Top.path, line), TRUE, Top.depth + 1,
                                       "stat", 0, FALSE))
    /\ UNCHANGED <<store, altFiles, backends, calls, regCount, handles, res>>

\* an invocation returning the error of loadAlternates to its caller, as if
\* line 52 read: return o.loadAlternates(objectsDir, alternateDepth)
ReturnAddDefaultBackends_Propagate ==
    /\ stack # << >>
    /\ Top.pc = "ret"
    /\ IF Len(stack) > 1
       THEN LET rest == SubSeq(stack, 1, Len(stack) - 1)
                caller == rest[Len(rest)]
            IN  /\ stack' = IF Top.err
                            THEN [rest EXCEPT ![Len(rest)] =
                                     [caller EXCEPT !.pc = "ret", !.err = TRUE]]
                            ELSE rest
                /\ UNCHANGED res
       ELSE /\ stack' = << >>
            /\ res' = Done("AddDefaultBackends", Top.path, << >>, Top.depth, ObjectBad, << >>,
                           [(IF Top.err THEN Fail("Failed to load object database")
                             ELSE Result("ok", "", ObjectBad, 0, << >>, << >>))
                            EXCEPT !.leak = handles])
    /\ UNCHANGED <<store, altFiles, backends, calls, regCount, handles>>

\* an invocation returns: to the loop of its caller, which returns the error
\* of a failed call (line 146) and is itself ignored at line 52, or to the
\* caller of the top-level call
ReturnAddDefaultBackends ==
    /\ stack # << >>
    /\ Top.pc = "ret"
    /\ IF Len(stack) > 1
       THEN LET rest == SubSeq(stack, 1, Len(stack) - 1)
                caller == rest[Len(rest)]
            IN  /\ stack' = IF Top.err
                            THEN [rest EXCEPT ![Len(rest)] =
                                     [caller EXCEPT !.pc = "ret", !.err = FALSE]]
                            ELSE rest
                /\ UNCHANGED res
       ELSE /\ stack' = << >>
            /\ res' = Done("AddDefaultBackends", Top.path, << >>, Top.depth, ObjectBad, << >>,
                           [(IF Top.err THEN Fail("Failed to load object database")
                             ELSE Result("ok", "", ObjectBad, 0, << >>, << >>))
                            EXCEPT !.leak = handles])
    /\ UNCHANGED <<store, altFiles, backends, calls, regCount, handles>>

-----------------------------------------------------------------------------
\* The dispatcher's operations, called between registrations

BoolResult(b) == Result(IF b THEN "true" ELSE "false", "", ObjectBad, 0, << >>, << >>)

OdbExists(oid) ==
    /\ stack = << >>
    /\ res' = Done("Exists", << >>, oid, 0, ObjectBad, << >>,
                   BoolResult(Odb_Exists(backends, store, oid)))
    /\ UNCHANGED <<store, altFiles, backends, stack, calls, regCount, handles>>

OdbExistsPrefix(oid, length) ==
    /\ stack = << >>
    /\ res' = Done("ExistsPrefix", << >>, oid, length, ObjectBad, << >>,
                   Odb_ExistsPrefix(backends, store, oid, length))
    /\ UNCHANGED <<store, altFiles, backends, stack, calls, regCount, handles>>

OdbRead(oid) ==
    /\ stack = << >>
    /\ res' = Done("Read", << >>, oid, 0, ObjectBad, << >>, Odb_Read(backends, store, oid))
    /\ UNCHANGED <<store, altFiles, backends, stack, calls, regCount, handles>>

OdbReadPrefix(oid, length) ==
    /\ stack = << >>
    /\ res' = Done("ReadPrefix", << >>, oid, length, ObjectBad, << >>,
                   Odb_ReadPrefix(backends, store, oid, length))
    /\ UNCHANGED <<store, altFiles, backends, stack, calls, regCount, handles>>

OdbReadHeader(oid) ==
    /\ stack = << >>
    /\ res' = Done("ReadHeader", << >>, oid, 0, ObjectBad, << >>,
                   Odb_ReadHeader(backends, store, oid))
    /\ UNCHANGED <<store, altFiles, backends, stack, calls, regCount, handles>>

Loading == EnterAddDefaultBackends \/ ScanLine \/ ReturnAddDefaultBackends

Next ==
    \/ \E path \in TopPaths, depth \in StartDepths : CallAddDefaultBackends(path, depth)
    \/ EnterAddDefaultBackends
    \/ ScanLine
    \/ ReturnAddDefaultBackends
    \/ \E oid \in AskOids : OdbExists(oid)
    \/ \E oid \in AskOids, length \in AskLengths : OdbExistsPrefix(oid, length)
    \/ \E oid \in AskOids : OdbRead(oid)
    \/ \E oid \in AskOids, length \in AskLengths : OdbReadPrefix(oid, length)
    \/ \E oid \in AskOids : OdbReadHeader(oid)

Spec == Init /\ [][Next]_vars

-----------------------------------------------------------------------------
\* The loose backend on its own: one backend on directory d1, whose content
\* an earlier writer (git, or this backend) left behind

PayloadBytes == {0, 65}

RECURSIVE SeqsUpTo(_, _)
SeqsUpTo(S, n) ==
    IF n = 0 THEN {<< >>}
    ELSE LET shorter == SeqsUpTo(S, n - 1)
         IN  shorter \cup {Append(q, x) : q \in {r \in shorter : Len(r) = n - 1}, x \in S}

\* a payload longer than the prefix ReadHeader decompresses
LongPayload == Repeat(65, HeaderPrefixLen + 6)

Payloads == SeqsUpTo(PayloadBytes, MaxPayload) \cup {LongPayload}

\* the directory holding one file
OneObject(oid, content) == ObjectIn(EmptyDir, oid, content)

\* an object stored in the legacy or in the compact variant
WellFormedLayouts ==
    {OneObject(hash(p, t), LegacyFile(t, p)) : p \in Payloads, t \in ValidTypes}
    \cup {OneObject(hash(p, t), CompactFile(t, p)) : p \in Payloads, t \in ValidTypes}

\* a stale file, longer than any stream Write produces for a short payload
StaleFile == Repeat(255, 24)

StaleLayouts == {OneObject(hash(<<65>>, t), StaleFile) : t \in ValidTypes}

\* the Oid the damaged files are stored under
DamagedOid == hash(<<65>>, ObjectBlob)

\* an empty file, a file of one byte, headers whose continuation bit is set
\* with 0, 1 and 2 bytes after them, a compact header before bytes that are no
\* stream, and streams with an unknown type, without a space, without a NUL
\* and with a size that is no number
DamagedFiles ==
    {<< >>, <<ZlibCMF>>, <<177>>, <<177, 5>>, <<177, 5, 6>>, <<49, 1, 2>>,
     ZlibCompress(<<120, 121, SP, Digit0 + 1, NUL, 65>>),
     ZlibCompress(<<98, 108, 111, 98>>),
     ZlibCompress(<<98, 108, 111, 98, SP, Digit0 + 1>>),
     DamagedFile(ObjectBlob, <<65>>)}

DamagedLayouts == {OneObject(DamagedOid, c) : c \in DamagedFiles}

\* two Oids that differ from their 7th character on
NearOid1 == hash(<<65, 0>>, ObjectBlob)
NearOid2 == hash(<<65, 65>>, ObjectBlob)

\* names of entries that are no object: a temporary file, a name of 38
\* characters that are not all hex
TmpName == <<16, 17, 18>>
OddName == SubSeq(NearOid1, OidDirLen + 1, GIT_OID_HEXSZ - 1) \o <<16>>

\* the name of the object file of NearOid1 with one more character, as an
\* editor's backup or a lock file has it
LongName == PathFormat(NearOid1)[2] \o <<16>>

NearBucket == PathFormat(NearOid1)[1]

Object1 == LegacyFile(ObjectBlob, <<65, 0>>)
Object2 == LegacyFile(ObjectBlob, <<65, 65>>)

BucketLayouts ==
    {ObjectIn(OneObject(NearOid1, Object1), NearOid2, Object2),
     PutFile(OneObject(NearOid1, Object1), NearBucket, TmpName, << >>),
     PutFile(OneObject(NearOid2, Object2), NearBucket, OddName, << >>),
     PutFile(EmptyDir, NearBucket, TmpName, << >>),
     PutFile(EmptyDir, NearBucket, OddName, << >>),
     PutFile(ObjectIn(OneObject(NearOid1, Object1), NearOid2, Object2),
             NearBucket, TmpName, << >>),
     PutFile(OneObject(NearOid1, Object1), NearBucket, LongName, << >>),
     MkdirAll(EmptyDir, NearBucket)}

\* names of entries of the object directory that are no buckets
InfoName == <<18, 19, 20, 21>>
HeadName == <<17, 18, 19>>
ShortName == <<12, 12>>

\* an object of the other bucket
Object3 == LegacyFile(ObjectTree, <<65>>)

\* dir with the regular file name in it
StrayFile(dir, name) ==
    [n \in DOMAIN dir \cup {name} |-> IF n = name THEN (FileMark :> << >>) ELSE dir[n]]

ThreeObjects ==
    ObjectIn(ObjectIn(OneObject(NearOid1, Object1), NearOid2, Object2),
             hash(<<65>>, ObjectTree), Object3)

\* loose objects next to an info subdirectory with a file in it, a
\* temporary file in a bucket and a stray file; the loose objects next to a
\* stray file whose name has 2 characters
EnumLayouts ==
    {StrayFile(PutFile(PutFile(ThreeObjects, InfoName, TmpName, << >>),
                       NearBucket, TmpName, << >>),
               HeadName),
     StrayFile(ThreeObjects, ShortName)}

LooseLayouts ==
    {EmptyDir} \cup WellFormedLayouts \cup StaleLayouts \cup DamagedLayouts \cup BucketLayouts
    \cup EnumLayouts

InitLoose ==
    /\ \E layout \in LooseLayouts :
          store = [k \in Dirs |-> IF k = 1 THEN layout ELSE EmptyDir]
    /\ altFiles = AltNone
    /\ backends = << >>
    /\ stack = << >>
    /\ calls = << >>
    /\ regCount = 0
    /\ handles = 0
    /\ res = NoOp

\* the Oids of the entries of dir whose names make an Oid
PresentOids(dir) ==
    {b \o n : b \in DOMAIN dir, n \in UNION {DOMAIN dir[c] : c \in DOMAIN dir}} \cap
    {o \in UNION {{b \o n : n \in DOMAIN dir[b]} : b \in DOMAIN dir} : NewOid(o).kind = "ok"}

\* callers ask for what the directory holds, for NearOid1 and for an Oid of a bucket
\* that does not exist
LooseAskOids == PresentOids(store[1]) \cup {NearOid1, AbsentOid}

LooseAskLengths == {6, 7, GIT_OID_HEXSZ}

LooseOnly == UNCHANGED <<altFiles, backends, stack, calls, regCount, handles>>

LooseRead(oid) ==
    /\ res' = Done("Loose.Read", << >>, oid, 0, ObjectBad, << >>,
                   OdbBackendLoose_Read(store[1], oid))
    /\ UNCHANGED store /\ LooseOnly

LooseReadHeader(oid) ==
    /\ res' = Done("Loose.ReadHeader", << >>, oid, 0, ObjectBad, << >>,
                   OdbBackendLoose_ReadHeader(store[1], oid))
    /\ UNCHANGED store /\ LooseOnly

LooseExists(oid) ==
    /\ res' = Done("Loose.Exists", << >>, oid, 0, ObjectBad, << >>,
                   BoolResult(OdbBackendLoose_Exists(store[1], oid)))
    /\ UNCHANGED store /\ LooseOnly

LooseExistsPrefix(oid, length) ==
    /\ res' = Done("Loose.ExistsPrefix", << >>, oid, length, ObjectBad, << >>,
                   OdbBackendLoose_ExistsPrefix(store[1], oid, length))
    /\ UNCHANGED store /\ LooseOnly

LooseReadPrefix(oid, length) ==
    /\ res' = Done("Loose.ReadPrefix", << >>, oid, length, ObjectBad, << >>,
                   OdbBackendLoose_ReadPrefix(store[1], oid, length))
    /\ UNCHANGED store /\ LooseOnly

LooseWrite(data, objType) ==
    /\ res' = [Done("Loose.Write", << >>, << >>, 0, objType, data,
                    OdbBackendLoose_Write(store[1], data, objType))
               EXCEPT !.before = store[1]]
    /\ store' = [store EXCEPT ![1] = WriteDir(@, data, objType)]
    /\ LooseOnly

\* the names of all entries of the buckets of dir
EntryNames(dir) == UNION {DOMAIN dir[b] : b \in DOMAIN dir}

\* the sets of Oids a callback fails on: none, or NearOid1
FailingOids == {<< >>, <<NearOid1>>}

LooseForEach(dirNames, order, failOn) ==
    /\ res' = Done("Loose.ForEach", << >>, << >>, 0, ObjectBad, failOn,
                   OdbBackendLoose_ForEach(store[1], dirNames, order, failOn))
    /\ UNCHANGED store /\ LooseOnly

NextLoose ==
    \/ \E oid \in LooseAskOids : LooseRead(oid)
    \/ \E oid \in LooseAskOids : LooseReadHeader(oid)
    \/ \E oid \in LooseAskOids : LooseExists(oid)
    \/ \E oid \in LooseAskOids, length \in LooseAskLengths : LooseExistsPrefix(oid, length)
    \/ \E oid \in LooseAskOids, length \in LooseAskLengths : LooseReadPrefix(oid, length)
    \/ \E data \in Payloads, objType \in ValidTypes : LooseWrite(data, objType)
    \/ \E dirNames \in Perms(DOMAIN store[1]), order \in Perms(EntryNames(store[1])),
          failOn \in FailingOids :
          LooseForEach(dirNames, order, failOn)

SpecLoose == InitLoose /\ [][NextLoose]_vars

-----------------------------------------------------------------------------
\* The compact header decoder on its own, applied to byte sequences

MaxHeaderLen == 3

\* first bytes of type 3 and size 1 without and with the continuation bit,
\* a first byte of type 0 and size 0, following bytes without and with the
\* continuation bit
HeaderBytes == {49, 177, 0, 5, 133}

HeaderInputs == SeqsUpTo(HeaderBytes, MaxHeaderLen)

InitCodec ==
    /\ store = [k \in Dirs |-> EmptyDir]
    /\ altFiles = AltNone
    /\ backends = << >>
    /\ stack = << >>
    /\ calls = << >>
    /\ regCount = 0
    /\ handles = 0
    /\ res = NoOp

\* out is what parseBinaryObjectHeader(data) returns: kind, type, size, offset
ParseBinaryObjectHeader(data) ==
    /\ res' = [Done("parseBinaryObjectHeader", << >>, << >>, 0, ObjectBad, data, NilNil)
               EXCEPT !.out = parseBinaryObjectHeader(data)]
    /\ UNCHANGED store /\ LooseOnly

NextCodec == \E data \in HeaderInputs : ParseBinaryObjectHeader(data)

SpecCodec == InitCodec /\ [][NextCodec]_vars

-----------------------------------------------------------------------------
\* What the disk holds, for the statements below

Range(seq) == {seq[i] : i \in 1 .. Len(seq)}

\* the least element of a non-empty set of numbers
Least(S) == CHOOSE x \in S : \A y \in S : x <= y

\* the directories that hold a file under oid
Holders(oid) == {k \in Dirs : OdbBackendLoose_Exists(store[k], oid)}

AllOids == {OidOf(k) : k \in Dirs} \cup AskOids

AllLengths == {OidDirLen, 5, 6, GIT_OID_HEXSZ}

\* the directories the relative lines of k's alternates file name
RelTargets(k) ==
    IF altFiles[k].exists /\ altFiles[k].readable
    THEN {Stat(Join(<<DirName(k)>>, l)) :
            l \in {m \in Range(altFiles[k].lines) : FirstChar(m) = "."}} \ {0}
    ELSE {}

\* the directories at most n alternates links away from roots
RECURSIVE Within(_, _)
Within(roots, n) ==
    IF n = 0 THEN roots
    ELSE LET w == Within(roots, n - 1) IN w \cup UNION {RelTargets(k) : k \in w}

\* the directories of the top-level calls made so far
Roots == {Stat(c.path) : c \in Range(calls)} \ {0}

RegisteredDirs == {Stat(backends[i].objectsDir) : i \in 1 .. Len(backends)}

-----------------------------------------------------------------------------
\* Statements about the dispatcher, checked under Spec

\* the full names, over all registered backends, that a prefix matches
PrefixCandidates(oid, length) ==
    UNION {{PathFormat(oid)[1] \o n :
              n \in PrefixMatches(BackendDir(store, backends[i]), oid, length)} :
           i \in 1 .. Len(backends)}

\* C3: Odb.ExistsPrefix and Odb.ReadPrefix resolve a prefix only when it
\* matches exactly one distinct object over all registered backends, and
\* report an error when it matches two or more.
C3_PrefixUnique ==
    stack = << >> =>
    \A oid \in AllOids, length \in AllLengths :
        LET cands == PrefixCandidates(oid, length)
            e == Odb_ExistsPrefix(backends, store, oid, length)
            r == Odb_ReadPrefix(backends, store, oid, length)
        IN  /\ e.kind = "ok" => cands = {e.oid}
            /\ r.kind = "ok" => cands = {r.oid}
            /\ Cardinality(cands) >= 2 => e.kind = "err" /\ r.kind = "err"

\* C5: after OdbOpen(root) every directory 1 to 5 relative alternates links
\* away from root is registered, and an object such a directory holds is
\* found by Odb.Exists and read by Odb.Read.
C5_AlternatesReachable ==
    (stack = << >> /\ Len(calls) = 1 /\ calls[1].depth = 0 /\ Stat(calls[1].path) # 0) =>
    \A k \in Within(Roots, GIT_ALTERNATES_MAX_DEPTH) :
        /\ k \in RegisteredDirs
        /\ \A oid \in AllOids :
              Holders(oid) = {k} /\ OdbBackendLoose_Read(store[k], oid).kind = "ok" =>
                  /\ Odb_Exists(backends, store, oid)
                  /\ Odb_Read(backends, store, oid).kind = "ok"

\* the directories that are reached from the roots only through 6 or more links
FarDirs == Within(Roots, NumDirs) \ Within(Roots, GIT_ALTERNATES_MAX_DEPTH)

\* C6: while every top-level call started at depth 0, no directory that is
\* reached only through 6 or more alternates links is registered, and an
\* object that only such directories hold is neither found by Odb.Exists nor
\* read by Odb.Read.
C6_DepthBound ==
    (\A c \in Range(calls) : c.depth = 0) =>
        /\ FarDirs \cap RegisteredDirs = {}
        /\ \A oid \in AllOids :
              Holders(oid) # {} /\ Holders(oid) \subseteq FarDirs =>
                  /\ ~Odb_Exists(backends, store, oid)
                  /\ Odb_Read(backends, store, oid).kind # "ok"

\* a chain with a directory 6 links away from the root has been loaded from depth 0
C6_Witness ==
    /\ stack = << >>
    /\ res.op = "AddDefaultBackends"
    /\ calls # << >> /\ \A c \in Range(calls) : c.depth = 0
    /\ \E k \in FarDirs : Holders(OidOf(k)) = {k}

NoDuplicateDirectory ==
    \A i, j \in 1 .. Len(backends) :
        i # j => Stat(backends[i].objectsDir) # Stat(backends[j].objectsDir)

\* an invocation for a directory that is registered returns nil and leaves the list as it is
RegisteredCallIsNoOp ==
    (stack # << >> /\ Top.pc = "stat" /\ Stat(Top.path) \in RegisteredDirs) =>
        /\ backends' = backends
        /\ Len(stack') = Len(stack)
        /\ stack'[Len(stack)].pc = "ret"
        /\ ~stack'[Len(stack)].err

\* C8: registration is idempotent per physical directory: no two backends
\* refer to the same physical directory, and a call for a registered
\* directory returns nil and leaves the backend list unchanged.
C8_Idempotent == [](NoDuplicateDirectory) /\ [][RegisteredCallIsNoOp]_vars

\* d1 was registered under one path string and then named through the link l1
C8_Witness ==
    /\ stack = << >>
    /\ res.op = "AddDefaultBackends" /\ res.path = <<"l1">> /\ res.out.kind = "ok"
    /\ Len(calls) = 2 /\ calls[1].path = <<"d1">>
    /\ Cardinality({i \in 1 .. Len(backends) : Stat(backends[i].objectsDir) = 1}) = 1

\* the work an invocation on the stack still has before it: 1 to return, 2
\* to run up to the loop, 3 for every line the loop has not read
FrameWeight(f) ==
    IF f.pc = "ret" THEN 1
    ELSE IF f.pc = "stat" THEN 2
    ELSE 2 + 3 * (Len(altFiles[Stat(f.path)].lines) + 1 - f.line)

RECURSIVE StackWeight(_)
StackWeight(st) ==
    IF st = << >> THEN 0 ELSE FrameWeight(st[Len(st)]) + StackWeight(SubSeq(st, 1, Len(st) - 1))

LongestFile == Least({n \in 0 .. 9 : \A k \in Dirs : Len(altFiles[k].lines) <= n})

\* a natural number: the directories not yet registered weigh more than any
\* invocation, so that a registration pays for the loop it starts
Rank ==
    Cardinality(Dirs \ RegisteredDirs) * (3 * LongestFile + 3) + StackWeight(stack)

\* C9: alternates loading terminates: every step of a running
\* AddDefaultBackends call, recursive calls included, lowers a natural number,
\* whatever the alternates files name (cycles, a directory naming itself),
\* so the call returns after finitely many steps.
C9_Terminates == [][Loading => Rank' < Rank]_vars

\* a call started at a depth above 0 on directories that name each other has returned
C9_Witness ==
    /\ stack = << >>
    /\ altFiles = AltCycle
    /\ res.op = "AddDefaultBackends"
    /\ Len(calls) = 1 /\ calls[1].depth = 1
    /\ {1, 2, 3} \subseteq RegisteredDirs

\* C10: Odb.Read, Odb.ReadHeader and Odb.ReadPrefix return what the first
\* backend that succeeds returns, and a NotFound error exactly when every
\* backend fails.
C10_FirstSuccess ==
    stack = << >> =>
    \A oid \in AllOids :
        LET n == Len(backends)
            rd == [i \in 1 .. n |-> OdbBackendLoose_Read(BackendDir(store, backends[i]), oid)]
            rh == [i \in 1 .. n |->
                     OdbBackendLoose_ReadHeader(BackendDir(store, backends[i]), oid)]
            okd == {i \in 1 .. n : rd[i].kind = "ok"}
            okh == {i \in 1 .. n : rh[i].kind = "ok"}
            d == Odb_Read(backends, store, oid)
            h == Odb_ReadHeader(backends, store, oid)
        IN  /\ IF okd = {} THEN d.kind = "err"
               ELSE d.kind = "ok" /\ d.type = rd[Least(okd)].type /\ d.data = rd[Least(okd)].data
            /\ IF okh = {} THEN h.kind = "err"
               ELSE h.kind = "ok" /\ h.type = rh[Least(okh)].type /\ h.size = rh[Least(okh)].size
            /\ \A length \in AllLengths :
                  LET rp == [i \in 1 .. n |->
                               OdbBackendLoose_ReadPrefix(BackendDir(store, backends[i]),
                                                          oid, length)]
                      okp == {i \in 1 .. n : rp[i].kind = "ok"}
                      q == Odb_ReadPrefix(backends, store, oid, length)
                  IN  IF okp = {} THEN q.kind = "err"
                      ELSE /\ q.kind = "ok" /\ q.oid = rp[Least(okp)].oid
                           /\ q.data = rp[Least(okp)].data

-----------------------------------------------------------------------------
\* Statements about the loose backend, checked under SpecLoose

\* C1: Write(data, type) on a directory that does not hold the object, then
\* Read(oid) of the Oid it returned: Read succeeds and returns the type and
\* the payload that were written.
C1_RoundTrip ==
    (/\ res.op = "Loose.Write"
     /\ res.out.kind = "ok"
     /\ ~OdbBackendLoose_Exists(res.before, res.out.oid)) =>
        LET r == OdbBackendLoose_Read(store[1], res.out.oid)
        IN  r.kind = "ok" /\ r.type = res.type /\ r.data = res.data

\* the names of the entries of the bucket of oid
BucketEntries(dir, oid) ==
    IF PathFormat(oid)[1] \in DOMAIN dir THEN DOMAIN dir[PathFormat(oid)[1]] ELSE {}

\* the entries whose names begin with characters 3 .. length of oid
Matching(dir, oid, length) ==
    {n \in BucketEntries(dir, oid) :
        /\ Len(n) >= length - OidDirLen
        /\ \A i \in 1 .. (length - OidDirLen) : n[i] = oid[i + OidDirLen]}

PrefixLengths == OidDirLen .. GIT_OID_HEXSZ

NotFoundErrors == {"ENOENT", "no matching loose object for prefix"}

\* C2: loose ExistsPrefix(oid, length) for 2 <= length <= 40, over any
\* content of the object directory: no matching entry in the bucket (or no
\* bucket) gives NotFound, exactly one matching entry gives the fully
\* resolved Oid, two or more give Ambiguous.
C2_AnyContent ==
    \A oid \in LooseAskOids, length \in PrefixLengths :
        LET m == Matching(store[1], oid, length)
            e == OdbBackendLoose_ExistsPrefix(store[1], oid, length)
        IN  /\ m = {} => e.kind = "err" /\ e.err \in NotFoundErrors
            /\ Cardinality(m) = 1 =>
                  e.kind = "ok" /\ \A n \in m : e.oid = PathFormat(oid)[1] \o n
            /\ Cardinality(m) >= 2 =>
                  e.kind = "err" /\ e.err = "multiple matches in loose objects"

\* the sample payloads, those of the bucket layouts included
AllPayloads == Payloads \cup {<<65, 0>>, <<65, 65>>}

\* content is a stored object of the legacy or of the compact variant,
\* possibly followed by what an overwritten longer file left behind
WellFormed(content) ==
    \E p \in AllPayloads, t \in ValidTypes :
        IsPrefixOf(LegacyFile(t, p), content) \/ IsPrefixOf(CompactFile(t, p), content)

FileOf(dir, oid) == dir[PathFormat(oid)[1]][PathFormat(oid)[2]]

\* C4: for every well-formed stored object, of either variant, ReadHeader
\* succeeds exactly when Read succeeds, and then returns the Type Read
\* returns and a Size equal to the length of the Data Read returns.
C4_HeaderAgrees ==
    \A oid \in PresentOids(store[1]) :
        WellFormed(FileOf(store[1], oid)) =>
            LET h == OdbBackendLoose_ReadHeader(store[1], oid)
                r == OdbBackendLoose_Read(store[1], oid)
            IN  /\ h.kind = "ok" <=> r.kind = "ok"
                /\ r.kind = "ok" => h.type = r.type /\ h.size = Len(r.data)

\* ReadHeader answered for a well-formed object of the compact variant
C4_Witness ==
    /\ res.op = "Loose.ReadHeader"
    /\ res.out.kind = "ok"
    /\ res.out.size > 0
    /\ WellFormed(FileOf(store[1], res.oid))
    /\ isZlibCompressedData(FileOf(store[1], res.oid)) = "no"

\* the names that make an object entry: a subdirectory whose name has 2
\* characters and an entry of it whose name has 38
Conforming(dir) ==
    UNION {{b \o n : n \in {m \in DOMAIN dir[b] : Len(m) = GIT_OID_HEXSZ - OidDirLen}} :
           b \in {c \in DOMAIN dir : Len(c) = OidDirLen /\ ~IsFileEntry(dir, c)}}

\* C11: ForEach with a callback that never returns an error invokes it
\* exactly once for each entry of 38 characters in a subdirectory of 2
\* characters and for nothing else, skips every other entry of the object
\* directory, and returns nil.
C11_EnumerationExact ==
    (res.op = "Loose.ForEach" /\ res.data = << >>) =>
        /\ res.out.kind = "ok"
        /\ Range(res.out.data) = Conforming(store[1])
        /\ Len(res.out.data) = Cardinality(Conforming(store[1]))

\* a second Write of the same data and type returns the same Oid and leaves
\* the object directory as the first Write left it
SameWriteTwice ==
    (/\ res.op = "Loose.Write" /\ res'.op = "Loose.Write"
     /\ res'.data = res.data /\ res'.type = res.type) =>
        /\ res'.out.oid = res.out.oid
        /\ store' = store

\* a Write leaves every object file that reads as the object of its Oid with
\* the type and the payload it had
ContentKept ==
    res'.op = "Loose.Write" =>
        \A oid \in PresentOids(store[1]) :
            LET r == OdbBackendLoose_Read(store[1], oid) IN
            (r.kind = "ok" /\ hash(r.data, r.type) = oid) =>
                OdbBackendLoose_Read(store'[1], oid) = r

\* C12: Write is idempotent and content-addressed: two Write calls with the
\* same data and type return the same Oid, the store after the second equals
\* the store after the first, and an object file present under an Oid is never
\* left with another logical content by a later Write.
C12_WriteIdempotent == [][SameWriteTwice /\ ContentKept]_vars

\* the second of two equal Writes over a longer stale file: nothing changed,
\* the file holds the new stream and the tail of the stale one
C12_Witness ==
    /\ res.op = "Loose.Write"
    /\ res.before = store[1]
    /\ HasFile(store[1], PathFormat(res.out.oid)[1], PathFormat(res.out.oid)[2])
    /\ Len(FileOf(store[1], res.out.oid)) > Len(LegacyFile(res.type, res.data))
    /\ OdbBackendLoose_Read(store[1], res.out.oid).data = res.data

\* C13: loose ExistsPrefix(oid, 40) returns that Oid without error exactly
\* when Exists(oid) is true, and an error exactly when Exists(oid) is false,
\* whatever the object directory holds.
C13_FullLengthAgrees ==
    (res.op = "Loose.ExistsPrefix" /\ res.length = GIT_OID_HEXSZ) =>
        IF OdbBackendLoose_Exists(store[1], res.oid)
        THEN res.out.kind = "ok" /\ res.out.oid = res.oid
        ELSE res.out.kind = "err"

\* content is of the legacy variant: a compressed stream from its first byte
LegacyStream(content) ==
    isZlibCompressedData(content) = "yes" /\ ZlibHeaderOk(content)

\* plain starts with the name of a type, a space, a decimal number and a NUL
HeaderWellFormed(plain) ==
    \E t \in ValidTypes, n \in 0 .. 99 :
        IsPrefixOf(TypeName(t) \o <<SP>> \o Itoa(n) \o <<NUL>>, plain)

\* C14: when the decompressed stream of a legacy object has an unknown type
\* token, no space, no NUL or a size that is no decimal number, Read and
\* ReadHeader return an error; Read never returns an object of type Bad.
C14_LegacyValidation ==
    /\ (/\ res.op \in {"Loose.Read", "Loose.ReadHeader"}
        /\ HasFile(store[1], PathFormat(res.oid)[1], PathFormat(res.oid)[2])
        /\ LegacyStream(FileOf(store[1], res.oid))
        /\ ~HeaderWellFormed(Inflate(FileOf(store[1], res.oid)))) =>
            res.out.kind = "err"
    /\ (res.op = "Loose.Read" /\ res.out.kind = "ok") => res.out.type # ObjectBad

-----------------------------------------------------------------------------
\* Statement about the compact header decoder, checked under SpecCodec

\* the number of header bytes: the position of the first byte whose top bit
\* is clear, 0 when there is none
HeaderEnd(data) ==
    LET ends == {i \in 1 .. Len(data) : data[i] < 128}
    IN  IF ends = {} THEN 0 ELSE Least(ends)

\* the low 7 bits of bytes 2 .. n at bit positions 4, 11, 18, ...
RECURSIVE ContinuationSize(_, _)
ContinuationSize(data, n) ==
    IF n < 2 THEN 0
    ELSE ContinuationSize(data, n - 1) + (data[n] % 128) * Pow2(4 + 7 * (n - 2))

\* C15: for every byte sequence parseBinaryObjectHeader returns the type of
\* bits 4-6 of the first byte, the size made of the low 4 bits of the first
\* byte and the low 7 bits of each continuation byte at bit positions 4, 11,
\* 18, ..., and the number of header bytes as offset; decoding stops at the
\* first byte whose top bit is clear, and a header that runs past the end of
\* the input (the empty input included) yields an error.
C15_CompactDecoding ==
    res.op = "parseBinaryObjectHeader" =>
        LET data == res.data
            n == HeaderEnd(data)
        IN  IF n = 0 THEN res.out.kind = "err"
            ELSE /\ res.out.kind = "ok"
                 /\ res.out.type = (data[1] \div 16) % 8
                 /\ res.out.size = ((data[1] % 16) + ContinuationSize(data, n)) % Pow2(SizeBits)
                 /\ res.out.offset = n

-----------------------------------------------------------------------------
\* Statements about failures, checked under SpecLoose (C16, C17, C18) and
\* under Spec (C19, C20)

\* C16: Read and ReadHeader are total over the content of an existing object
\* file: each call returns a result or an error and never aborts with an
\* out-of-range access or a nil dereference.
C16_ReadTotal ==
    res.op \in {"Loose.Read", "Loose.ReadHeader"} => res.out.kind \in {"ok", "err"}

\* C17: whenever Write returns an Oid and no error, the object file of that
\* Oid exists afterwards.
C17_WriteReportsFailure ==
    (res.op = "Loose.Write" /\ res.out.kind = "ok") =>
        OdbBackendLoose_Exists(store[1], res.out.oid)

\* C18: no file or directory handle outlives the operation that opened it:
\* after every call of the backend, on success and on every error path, the
\* number of handles the call opened and left open is zero.
C18_NoHandleLeft ==
    res.op \in {"Loose.Read", "Loose.ReadHeader", "Loose.Write", "Loose.Exists",
                "Loose.ExistsPrefix", "Loose.ReadPrefix", "Loose.ForEach"} =>
        res.out.leak = 0

\* C19: Odb.ExistsPrefix returns a resolved Oid and no error, or no Oid and an
\* error, in every state of the Odb, the Odb without backends included; it
\* never returns neither.
C19_OidOrError ==
    res.op = "ExistsPrefix" => res.out.kind \in {"ok", "err"}

\* an invocation of AddDefaultBackends, recursive or not, returns an error
\* exactly when the stat of its own objectsDir failed
ErrorIffStatFails ==
    /\ (stack # << >> /\ Top.pc = "ret") => (Top.err <=> Stat(Top.path) = 0)
    /\ res.op = "AddDefaultBackends" => (res.out.kind = "err" <=> Stat(res.path) = 0)

\* the invocation whose stat fails leaves the backend list as it is
StatFailureChangesNothing ==
    (stack # << >> /\ Top.pc = "stat" /\ Stat(Top.path) = 0) => backends' = backends

\* no step takes a backend off the list
BackendsStay ==
    \A i \in 1 .. Len(backends) : \E j \in 1 .. Len(backends') : backends'[j] = backends[i]

\* C20: AddDefaultBackends returns an error if and only if the stat of its
\* own objectsDir fails, and then the backend list is unchanged; a failure
\* while loading alternates is not reported to the caller, and the backends
\* registered before it stay registered.
C20_ErrorOnlyFromStat ==
    [](ErrorIffStatFails) /\ [][StatFailureChangesNothing /\ BackendsStay]_vars

\* a call on d1, whose alternates file names a missing directory before d3,
\* returned nil: d1 is registered, the loop ended at the failure
C20_Witness ==
    /\ stack = << >>
    /\ res.op = "AddDefaultBackends" /\ res.out.kind = "ok"
    /\ altFiles = AltMixed
    /\ calls = <<[path |-> <<"d1">>, depth |-> 1]>>
    /\ RegisteredDirs = {1}

====
